---- MODULE Spec2Model ----
(***************************************************************************)
(* Model of the tax26 chat front-end: src/tax.py (n8n webhook relay with   *)
(* citation formatting) and src/app.py (OpenAI relay).  Python values are  *)
(* tagged records, Python strings are TLA+ strings, and a call either      *)
(* returns a value or raises an exception.                                 *)
(***************************************************************************)
EXTENDS Integers, Sequences, FiniteSets, TLC

VARIABLES
    prog,       \* which module serves the session: "tax" (src/tax.py) or "app" (src/app.py)
    url,        \* N8N_WEBHOOK_URL is configured (tax.py line 15)
    heap,       \* the Python list objects created for chat histories
    session,    \* cl.user_session["chat_history"]: index into heap, 0 when unset
    arrived,    \* the messages of the session, in arrival order
    h,          \* h[i]: the on_message task handling arrived[i]
    data,       \* the input of a pure-function run (the JSON value handed to extract_text,
                \* the documents handed to read_documents, ...)
    result      \* what the function did with it: NotRun, Return(..) or Raise(..)

vars == << prog, url, heap, session, arrived, h, data, result >>

(***************************** Python values *******************************)
Null      == [t |-> "null"]
Str(s)    == [t |-> "str", s |-> s]
Num(n)    == [t |-> "num", n |-> n]
Bool(b)   == [t |-> "bool", b |-> b]
List(l)   == [t |-> "list", l |-> l]
Obj(o)    == [t |-> "obj", o |-> o]

\* the empty dict {} : a function with the empty domain
EmptyDict == [k \in {} |-> Null]

\* outcome of a call
NotRun    == [kind |-> "notrun"]
Return(v) == [kind |-> "ret", val |-> v]
Raise(e)  == [kind |-> "exc", exc |-> e]

\* bool(v): Python truth value (None, "", 0, False, [] and {} are falsy)
Truthy(v) ==
    CASE v.t = "null" -> FALSE
      [] v.t = "str"  -> v.s # ""
      [] v.t = "num"  -> v.n # 0
      [] v.t = "bool" -> v.b
      [] v.t = "list" -> Len(v.l) > 0
      [] v.t = "obj"  -> DOMAIN v.o # {}

\* a or b
PyOr(a, b) == IF Truthy(a) THEN a ELSE b

\* d.get(k, dflt) on a dict d
Get(d, k, dflt) == IF k \in DOMAIN d THEN d[k] ELSE dflt

\* the order in which the keys of a JSON object are written out
KeyOrder == << "answer", "response", "output", "cleanedResponse", "citations",
               "source", "section", "reference" >>

RECURSIVE JoinStr(_, _)
\* sep.join(parts)
JoinStr(sep, parts) ==
    IF Len(parts) = 0 THEN ""
    ELSE IF Len(parts) = 1 THEN parts[1]
    ELSE parts[1] \o sep \o JoinStr(sep, Tail(parts))

RECURSIVE PyRepr(_)
\* repr(v) for the JSON values of the model (strings hold no quote)
PyRepr(v) ==
    CASE v.t = "null" -> "None"
      [] v.t = "str"  -> "'" \o v.s \o "'"
      [] v.t = "num"  -> ToString(v.n)
      [] v.t = "bool" -> IF v.b THEN "True" ELSE "False"
      [] v.t = "list" ->
            "[" \o JoinStr(", ", [i \in 1..Len(v.l) |-> PyRepr(v.l[i])]) \o "]"
      [] v.t = "obj"  ->
            LET ks == SelectSeq(KeyOrder, LAMBDA k : k \in DOMAIN v.o)
            IN  "{" \o JoinStr(", ", [i \in 1..Len(ks) |->
                          "'" \o ks[i] \o "': " \o PyRepr(v.o[ks[i]])]) \o "}"

\* str(v), also what an f-string {v} renders
PyStr(v) == IF v.t = "str" THEN v.s ELSE PyRepr(v)

IsSpace(c) == c \in {" ", "\n", "\t", "\r"}

RECURSIVE LStrip(_)
LStrip(s) == IF Len(s) > 0 /\ IsSpace(SubSeq(s, 1, 1)) THEN LStrip(Tail(s)) ELSE s

RECURSIVE RStrip(_)
RStrip(s) ==
    IF Len(s) > 0 /\ IsSpace(SubSeq(s, Len(s), Len(s)))
    THEN RStrip(SubSeq(s, 1, Len(s) - 1)) ELSE s

\* s.strip()
Strip(s) == RStrip(LStrip(s))

\* sub in s
Contains(s, sub) ==
    \E i \in 1..(Len(s) - Len(sub) + 1) : SubSeq(s, i, i + Len(sub) - 1) = sub

(****************************** extract_text *******************************)
NO_RESPONSE == " No response received.\n\n Sources: None"

\* variant of extract_answer: a field that is present wins even when it is empty
extract_answer_present_wins(d) ==
    IF "answer" \in DOMAIN d THEN d["answer"]
    ELSE IF "response" \in DOMAIN d THEN d["response"]
    ELSE IF "output" \in DOMAIN d THEN d["output"]
    ELSE IF "cleanedResponse" \in DOMAIN d THEN d["cleanedResponse"]
    ELSE Str("")

\* lines 64-70: the chain of "or" over the four answer fields
extract_answer(d) ==
    PyOr(Get(d, "answer", Null),
      PyOr(Get(d, "response", Null),
        PyOr(Get(d, "output", Null),
          PyOr(Get(d, "cleanedResponse", Null), Str("")))))

\* variant of format_citation: the reference is never looked up
format_citation_section_only(c) ==
    IF c.t # "obj" THEN Raise("AttributeError")
    ELSE Return("- " \o PyStr(Get(c.o, "source", Null)) \o " ("
                \o PyStr(Get(c.o, "section", Str(""))) \o ")")

\* line 81: one rendered citation; c.get exists on dicts only
format_citation(c) ==
    IF c.t # "obj" THEN Raise("AttributeError")
    ELSE Return("- " \o PyStr(Get(c.o, "source", Null)) \o " ("
                \o PyStr(Get(c.o, "reference", Get(c.o, "section", Str(""))))
                \o ")")

\* iter(citations) for a truthy value: the items the generator of line 82 visits
IterItems(v) ==
    CASE v.t = "list" -> Return(v.l)
      [] v.t = "str"  -> Return([i \in 1..Len(v.s) |-> Str(SubSeq(v.s, i, i))])
      [] v.t = "obj"  -> Return([i \in 1..Len(SelectSeq(KeyOrder, LAMBDA k : k \in DOMAIN v.o))
                                   |-> Str(SelectSeq(KeyOrder, LAMBDA k : k \in DOMAIN v.o)[i])])
      [] OTHER        -> Raise("TypeError")

\* lines 80-83: "\n".join(... for c in citations)
format_sources(citations) ==
    LET it == IterItems(citations) IN
    IF it.kind = "exc" THEN it
    ELSE LET lines == [i \in 1..Len(it.val) |-> format_citation(it.val[i])]
         IN  IF \E i \in 1..Len(lines) : lines[i].kind = "exc"
             THEN Raise("AttributeError")
             ELSE Return(JoinStr("\n", [i \in 1..Len(lines) |-> lines[i].val]))

\* variant of extract_dict: the Sources block is rendered for empty citations too
extract_dict_always_sources(d) ==
    LET answer    == extract_answer(d)
        citations == Get(d, "citations", List(<< >>))
        shown     == IF Truthy(citations) THEN citations ELSE List(<< >>)
    IN  LET formatted_sources == format_sources(shown) IN
        IF formatted_sources.kind = "exc" THEN formatted_sources
        ELSE Return(PyStr(PyOr(answer, Str("Response rejected.")))
                    \o "\n\n Sources:\n" \o formatted_sources.val)

\* lines 64-85: the branch for a dict
extract_dict(d) ==
    LET answer    == extract_answer(d)
        citations == Get(d, "citations", List(<< >>))
    IN  IF ~Truthy(citations)
        THEN Return(PyStr(PyOr(answer, Str("Response rejected."))) \o "\n\n")
        ELSE LET formatted_sources == format_sources(citations) IN
             IF formatted_sources.kind = "exc" THEN formatted_sources
             ELSE IF answer.t # "str" THEN Raise("AttributeError")
             ELSE Return(Strip(answer.s) \o "\n\n Sources:\n" \o formatted_sources.val)

\* lines 54-85
extract_text(v) ==
    IF ~Truthy(v) THEN Return(NO_RESPONSE)
    ELSE LET w == IF v.t = "list" THEN v.l[1] ELSE v IN
         IF w.t # "obj" THEN Return(PyStr(w) \o "\n\n Sources: None")
         ELSE extract_dict(w.o)

(************************ inputs of extract_text ****************************)
MaxCitations == 2

Absent == [t |-> "absent"]

\* a dict from a record of choices, leaving out the keys chosen Absent
MkDict(c) == [k \in {x \in DOMAIN c : c[x] # Absent} |-> c[k]]

CitationC0 == Obj([source |-> Str("S"), reference |-> Str("R")])

\* citation entries: mappings with any of the three keys, and entries that are no mapping
CitEntries ==
    { Obj(MkDict(c)) : c \in [ source    : {Absent, Str("S")},
                               section   : {Absent, Str("Sec"), Str("")},
                               reference : {Absent, Str("R"), Str(""), Null} ] }
    \cup { Str("x"), Null }

CitLists == UNION { [1..n -> CitEntries] : n \in 0..MaxCitations }

\* objects that vary the four answer fields
AnswerObjs ==
    { Obj(MkDict(c)) :
        c \in [ answer          : {Absent, Null, Str(""), Num(0), Str("A"), Str(" A "), Num(7)},
                response        : {Absent, Null, Str(""), Str("B")},
                output          : {Absent, Null, Str(""), Str("C")},
                cleanedResponse : {Absent, Null, Str(""), Str("D")},
                citations       : {Absent, Null, List(<< >>), List(<< CitationC0 >>)} ] }

\* objects that vary the citations
CitationObjs ==
    { Obj(MkDict(c)) :
        c \in [ answer    : {Absent, Str(" A "), Num(7)},
                citations : { List(l) : l \in CitLists }
                            \cup { Str("x"), Num(3), Bool(TRUE), CitationC0 } ] }

Scalars == { Null, Str(""), Str("plain"), Num(0), Num(7), Bool(FALSE), Bool(TRUE) }

JsonObjects == AnswerObjs \cup CitationObjs

JsonInputs ==
    Scalars \cup JsonObjects \cup { List(<< >>), List(<< List(<< Str("a") >>) >>) }
    \cup { List(<< v >>) : v \in Scalars \cup AnswerObjs }
    \cup { List(<< v, Str("rest") >>) : v \in Scalars \cup AnswerObjs }

(************************** the session's data *****************************)
MaxMsgs  == 2
MaxLists == 2
MaxSteps == 3
MaxFiles == 1

Turn(role, content) == [role |-> role, content |-> content]

\* what the user types in the k-th message of the session
MessageContent(k) == "m" \o ToString(k)

\* uploaded files: parts are the pages of a PDF, the paragraphs of a DOCX or the
\* whole text of a TXT; readable is FALSE for a file its library cannot open
Docs ==
    { [name |-> "slip.pdf",  path |-> "/tmp/slip.pdf",  parts |-> << "p1", "p2" >>, readable |-> TRUE],
      [name |-> "bad.pdf",   path |-> "/tmp/bad.pdf",   parts |-> << >>,            readable |-> FALSE],
      [name |-> "memo.docx", path |-> "/tmp/memo.docx", parts |-> << "q1", "q2" >>, readable |-> TRUE],
      [name |-> "note.txt",  path |-> "/tmp/note.txt",  parts |-> << "body" >>,     readable |-> TRUE],
      [name |-> "scan.png",  path |-> "/tmp/scan.png",  parts |-> << >>,            readable |-> TRUE] }

FileLists == UNION { [1..n -> Docs] : n \in 0..MaxFiles }

\* the attachments of the session's messages: none, or files of which one is corrupt
SessionFileLists ==
    { << >> } \cup { << d >> : d \in { f \in Docs : f.name \in {"slip.pdf", "bad.pdf"} } }

\* the k-th message to arrive
Messages(k) == { [content |-> MessageContent(k), elements |-> fl] : fl \in SessionFileLists }

\* persisted steps: with or without an output, with or without a type
StepKinds ==
    { [type |-> "user_message", output |-> "hi"],
      [type |-> "user_message"],
      [type |-> "assistant_message", output |-> "hello"],
      [type |-> "assistant_message"],
      [type |-> "tool", output |-> "x"],
      [output |-> "y"] }

Threads ==
    { [id |-> "t"] } \cup
    { [id |-> "t", steps |-> st] : st \in UNION { [1..n -> StepKinds] : n \in 0..MaxSteps } }

\* the threads resumed while messages are being handled
SessionThreads ==
    { [id |-> "t"],
      [id |-> "t", steps |-> << [type |-> "user_message"] >>],
      [id |-> "t", steps |-> << [type |-> "user_message", output |-> "hi"],
                                [type |-> "assistant_message", output |-> "hello"],
                                [type |-> "tool", output |-> "x"] >>] }

\* what the webhook does with one POST
JsonHeader == [k \in {"Content-Type"} |-> "application/json; charset=utf-8"]
HtmlHeader == [k \in {"Content-Type"} |-> "text/html"]
NoHeader   == [k \in {} |-> ""]

GoodBody == Obj([answer |-> Str("A"), citations |-> List(<< CitationC0 >>)])
OddBody  == Obj([answer |-> Num(7), citations |-> List(<< CitationC0 >>)])

PostOutcomes ==
    { [k |-> "timeout"], [k |-> "connerr"] } \cup
    { [k |-> "resp", status |-> 500, headers |-> JsonHeader, body |-> [valid |-> TRUE, json |-> GoodBody]],
      [k |-> "resp", status |-> 200, headers |-> HtmlHeader, body |-> [valid |-> FALSE]],
      [k |-> "resp", status |-> 200, headers |-> NoHeader,   body |-> [valid |-> FALSE]],
      [k |-> "resp", status |-> 200, headers |-> JsonHeader, body |-> [valid |-> FALSE]] } \cup
    { [k |-> "resp", status |-> 200, headers |-> JsonHeader, body |-> [valid |-> TRUE, json |-> b]] :
        b \in {GoodBody, OddBody} }

\* what the OpenAI completion call of app.py does
CompletionOutcomes == { Return("hello"), Raise("APIError") }

(***************************** read_documents ******************************)
EndsWith(s, suf) ==
    Len(s) >= Len(suf) /\ SubSeq(s, Len(s) - Len(suf) + 1, Len(s)) = suf

\* variant of read_document: the header is written after the document's content
read_document_header_last(document) ==
    LET header == "\n\nFILE: " \o document.name \o "\n" IN
    IF ~document.readable THEN Raise("FileDataError")
    ELSE IF EndsWith(document.path, ".docx")
    THEN Return(JoinStr("\n", document.parts) \o header)
    ELSE Return(JoinStr("", document.parts) \o header)

\* lines 93-106: what one document adds to text, or the exception its library raises
read_document(document) ==
    LET header == "\n\nFILE: " \o document.name \o "\n" IN
    IF EndsWith(document.path, ".pdf")
    THEN IF document.readable
         THEN Return(header \o JoinStr("", document.parts))
         ELSE Raise("FileDataError")
    ELSE IF EndsWith(document.path, ".docx")
    THEN IF document.readable
         THEN Return(header \o JoinStr("\n", document.parts))
         ELSE Raise("PackageNotFoundError")
    ELSE IF EndsWith(document.path, ".txt")
    THEN IF document.readable
         THEN Return(header \o JoinStr("", document.parts))
         ELSE Raise("UnicodeDecodeError")
    ELSE Return(header)

RECURSIVE read_documents_from(_, _)
\* the loop of lines 92-106 with text accumulated so far
read_documents_from(text, documents) ==
    IF Len(documents) = 0 THEN Return(text)
    ELSE LET r == read_document(Head(documents)) IN
         IF r.kind = "exc" THEN r
         ELSE read_documents_from(text \o r.val, Tail(documents))

\* lines 90-108
read_documents(documents) == read_documents_from("", documents)

(************************* enforce_citation_prompt *************************)
\* lines 21-47: the text before the user's question
PROMPT_HEAD ==
    "\n"
    \o "You are a regulated tax consultant.\n"
    \o "\n"
    \o "MANDATORY RULES (NON-NEGOTIABLE):\n"
    \o "- Every response MUST include citations\n"
    \o "- Citations MUST reference real tax laws, regulations, or official guidance\n"
    \o "- Return ONLY valid JSON in the format below\n"
    \o "\n"
    \o "FORMAT:\n"
    \o "{\n"
    \o "  \"answer\": \"Clear and professional response\",\n"
    \o "  \"citations\": [\n"
    \o "    {\n"
    \o "      \"source\": \"Document name\",\n"
    \o "      \"section\": \"Section or clause\",\n"
    \o "      \"reference\": \"Exact legal citation\"\n"
    \o "    }\n"
    \o "  ]\n"
    \o "}\n"
    \o "\n"
    \o "If citations cannot be provided, respond with:\n"
    \o "{\n"
    \o "  \"answer\": \"I cannot answer this question with certainty.\",\n"
    \o "  \"citations\": []\n"
    \o "}\n"
    \o "\n"
    \o "User question:\n"

\* lines 20-49
enforce_citation_prompt(user_message) == PROMPT_HEAD \o user_message \o "\n"

(***************************** call_n8n_chain ******************************)
NOT_CONFIGURED == " N8N_WEBHOOK_URL not configured."
TIMED_OUT      == " Request to n8n timed out."

\* str(e) of the exceptions the transport and the parser raise
ExcStr(exc) ==
    CASE exc = "TimeoutError"         -> ""
      [] exc = "ClientConnectorError" -> "Cannot connect to host"
      [] exc = "JSONDecodeError"      -> "Expecting value: line 1 column 1 (char 0)"
      [] OTHER                        -> exc

\* variant of try_body: the status of the response is not looked at
try_body_any_status(o) ==
    CASE o.k = "timeout" -> Raise("TimeoutError")
      [] o.k = "connerr" -> Raise("ClientConnectorError")
      [] o.k = "resp" ->
            IF ~Contains(Get(o.headers, "Content-Type", ""), "application/json")
            THEN Return(" n8n returned invalid content type.")
            ELSE IF ~o.body.valid THEN Raise("JSONDecodeError")
            ELSE extract_text(o.body.json)

\* lines 127-142: the body of the try, given what the POST did
try_body(o) ==
    CASE o.k = "timeout" -> Raise("TimeoutError")
      [] o.k = "connerr" -> Raise("ClientConnectorError")
      [] o.k = "resp" ->
            IF o.status # 200
            THEN Return(" n8n returned status " \o ToString(o.status))
            ELSE IF ~Contains(Get(o.headers, "Content-Type", ""), "application/json")
            THEN Return(" n8n returned invalid content type.")
            ELSE IF ~o.body.valid THEN Raise("JSONDecodeError")
            ELSE extract_text(o.body.json)

\* lines 117-124: the prompt, behind the document context when there is one
enforced_message(user_message, document_context) ==
    IF Truthy(document_context)
    THEN "DOCUMENT CONTEXT (FOR CITATION ONLY):\n" \o document_context.s \o "\n\n"
         \o enforce_citation_prompt(user_message)
    ELSE enforce_citation_prompt(user_message)

\* line 130: the JSON body of the POST
request_body(user_message, document_context) ==
    [chatInput |-> enforced_message(user_message, document_context)]

\* aiohttp.ClientTimeout is the settings class line 131 constructs with total=60;
\* it does not inherit from BaseException
ClientTimeoutIsExceptionClass == FALSE

\* lines 144-147: the except clauses, tried in order on an exception of the try body.
\* Matching an exception against a class that is no exception class raises TypeError.
except_clauses(r) ==
    IF r.kind # "exc" THEN r
    ELSE IF ~ClientTimeoutIsExceptionClass THEN Raise("TypeError")
    ELSE IF r.exc = "ClientTimeout" THEN Return(TIMED_OUT)
    ELSE Return(" Unexpected error: " \o ExcStr(r.exc))

\* lines 126-147: the outcome of call_n8n_chain once the POST is under way
call_n8n_chain(o) == except_clauses(try_body(o))

(****************************** the handlers *******************************)
SessionInit ==
    /\ prog \in {"tax", "app"}
    /\ url \in IF prog = "tax" THEN BOOLEAN ELSE {FALSE}
    /\ heap = << >>
    /\ session = 0
    /\ arrived = << >>
    /\ h = << >>

Init ==
    /\ SessionInit
    /\ data = Null
    /\ result = NotRun

\* the list cl.user_session.get("chat_history", []) hands out
History == IF session = 0 THEN << >> ELSE heap[session].items

\* tax.py lines 234-241: the greeting on_chat_start sends; the check mark U+2714
\* of lines 238-239 is written "[v]", strings here being ASCII
greeting(name) ==
    "Hello " \o name \o " \n\n"
    \o "I am a **tax compliance assistant**.\n"
    \o "[v] All answers include legal citations\n"
    \o "[v] You may upload PAYSLIPS, PDFs, DOCX, or TXT files\n"

\* on_chat_start of both modules (tax.py 228-242, app.py 111-118): a new empty list
on_chat_start ==
    /\ Len(heap) < MaxLists
    /\ heap' = Append(heap, [by |-> "start", items |-> << >>])
    /\ session' = Len(heap) + 1
    /\ UNCHANGED << prog, url, arrived, h, data, result >>

RECURSIVE tax_resume_loop(_, _)
\* tax.py lines 176-180: the loop over the steps, history accumulated so far
tax_resume_loop(history, steps) ==
    IF Len(steps) = 0 THEN history
    ELSE LET step == Head(steps) IN
         IF Get(step, "type", "None") = "user_message"
         THEN tax_resume_loop(Append(history, Turn("user", Get(step, "output", ""))), Tail(steps))
         ELSE IF Get(step, "type", "None") = "assistant_message"
         THEN tax_resume_loop(Append(history, Turn("assistant", Get(step, "output", ""))), Tail(steps))
         ELSE tax_resume_loop(history, Tail(steps))

RECURSIVE tax_resume_loop_else(_, _)
\* variant of the loop: every step that is no user message becomes an assistant turn
tax_resume_loop_else(history, steps) ==
    IF Len(steps) = 0 THEN history
    ELSE LET step == Head(steps) IN
         IF Get(step, "type", "None") = "user_message"
         THEN tax_resume_loop_else(Append(history, Turn("user", Get(step, "output", ""))), Tail(steps))
         ELSE tax_resume_loop_else(Append(history, Turn("assistant", Get(step, "output", ""))), Tail(steps))

\* variant of tax_resume_history built on that loop
tax_resume_history_else(thread) == tax_resume_loop_else(<< >>, Get(thread, "steps", << >>))

\* tax.py lines 174-181: the history rebuilt from a thread
tax_resume_history(thread) == tax_resume_loop(<< >>, Get(thread, "steps", << >>))

RECURSIVE app_resume_loop(_, _)
\* app.py lines 56-63
app_resume_loop(chat_history, steps) ==
    IF Len(steps) = 0 THEN chat_history
    ELSE LET step     == Head(steps)
             msg_type == Get(step, "type", "None")
             output   == Get(step, "output", "")
         IN  IF msg_type = "user_message"
             THEN app_resume_loop(Append(chat_history, Turn("user", output)), Tail(steps))
             ELSE IF msg_type = "assistant_message"
             THEN app_resume_loop(Append(chat_history, Turn("assistant", output)), Tail(steps))
             ELSE app_resume_loop(chat_history, Tail(steps))

\* app.py lines 54-64
app_resume_history(thread) == app_resume_loop(<< >>, Get(thread, "steps", << >>))

\* on_chat_resume (tax.py 172-182, app.py 52-65): the rebuilt list replaces the session's
on_chat_resume(thread) ==
    /\ Len(heap) < MaxLists
    /\ heap' = Append(heap, [by |-> "resume",
                             items |-> IF prog = "tax" THEN tax_resume_history(thread)
                                       ELSE app_resume_history(thread)])
    /\ session' = Len(heap) + 1
    /\ UNCHANGED << prog, url, arrived, h, data, result >>

\* a task of on_message that has not done anything yet
NewTask(ref) ==
    [pc |-> "new", ref |-> ref, document_context |-> Null, outcome |-> [k |-> "none"],
     reply |-> NotRun, msg |-> Null, posts |-> 0, error |-> "none", steps |-> << >>,
     request |-> Null]

Extend(hp, ref, turns) == [hp EXCEPT ![ref].items = @ \o turns]

\* variant of tax_on_message: the user turn is appended on arrival, as app.py does
tax_on_message_appends_user(message) ==
    /\ prog = "tax"
    /\ session # 0
    /\ Len(arrived) < MaxMsgs
    /\ arrived' = Append(arrived, message)
    /\ heap' = Extend(heap, session, << Turn("user", message.content) >>)
    /\ h' = Append(h, [NewTask(session) EXCEPT
                          !.pc = IF Len(message.elements) > 0 THEN "reading" ELSE "sending"])
    /\ UNCHANGED << prog, url, session, data, result >>

\* tax.py lines 189-198 (files attached) or 189-203 (none): on_message up to its first await
tax_on_message(message) ==
    /\ prog = "tax"
    /\ session # 0
    /\ Len(arrived) < MaxMsgs
    /\ arrived' = Append(arrived, message)
    /\ LET files == SelectSeq(message.elements, LAMBDA f : TRUE) IN
       h' = Append(h, [NewTask(session) EXCEPT
                          !.pc = IF Len(files) > 0 THEN "reading" ELSE "sending"])
    /\ UNCHANGED << prog, url, heap, session, data, result >>

\* tax.py lines 198-203: the executor hands back read_documents' result or its exception
tax_read_documents_done(i) ==
    /\ h[i].pc = "reading"
    /\ LET r == read_documents(SelectSeq(arrived[i].elements, LAMBDA f : TRUE)) IN
       h' = [h EXCEPT ![i] =
               IF r.kind = "exc"
               THEN [@ EXCEPT !.pc = "failed", !.error = r.exc, !.steps = Append(@, "extract")]
               ELSE [@ EXCEPT !.pc = "sending", !.document_context = Str(r.val),
                              !.steps = Append(@, "extract")]]
    /\ UNCHANGED << prog, url, heap, session, arrived, data, result >>

\* variant of tax_placeholder_sent: the POST is issued before the URL is looked at
tax_placeholder_sent_posts_first(i) ==
    /\ h[i].pc = "sending"
    /\ h' = [h EXCEPT ![i] = [@ EXCEPT !.pc = "posting", !.msg = Str(""), !.posts = @ + 1]]
    /\ UNCHANGED << prog, url, heap, session, arrived, data, result >>

\* tax.py lines 203-205 and 113-131: the placeholder is out; call_n8n_chain returns at
\* once without a URL (then lines 207-208), else issues the POST
tax_placeholder_sent(i) ==
    /\ h[i].pc = "sending"
    /\ h' = [h EXCEPT ![i] =
               IF ~url
               THEN [@ EXCEPT !.pc = "updating", !.msg = Str(""),
                              !.reply = Return(NOT_CONFIGURED),
                              !.steps = @ \o << "placeholder", "call" >>]
               ELSE [@ EXCEPT !.pc = "posting", !.msg = Str(""), !.posts = @ + 1,
                              !.steps = @ \o << "placeholder", "call" >>,
                              !.request = request_body(arrived[i].content, h[i].document_context)]]
    /\ UNCHANGED << prog, url, heap, session, arrived, data, result >>

\* tax.py lines 132-147 and 205-208: the POST ends; call_n8n_chain returns or raises
tax_post_done(i, o) ==
    /\ h[i].pc = "posting"
    /\ LET r == call_n8n_chain(o) IN
       h' = [h EXCEPT ![i] =
               IF r.kind = "exc"
               THEN [@ EXCEPT !.pc = "failed", !.outcome = o, !.reply = r, !.error = r.exc]
               ELSE [@ EXCEPT !.pc = "updating", !.outcome = o, !.reply = r]]
    /\ UNCHANGED << prog, url, heap, session, arrived, data, result >>

\* tax.py lines 207-214: the reply message shows the final text, the exchange is appended
tax_reply_updated(i) ==
    /\ h[i].pc = "updating"
    /\ h' = [h EXCEPT ![i] = [@ EXCEPT !.pc = "done", !.msg = Str(Strip(h[i].reply.val)),
                                        !.steps = @ \o << "update", "append" >>]]
    /\ heap' = Extend(heap, h[i].ref, << Turn("user", arrived[i].content),
                                         Turn("assistant", h[i].reply.val) >>)
    /\ session' = h[i].ref
    /\ UNCHANGED << prog, url, arrived, data, result >>

\* app.py lines 72-78: the user turn is appended to the session's list, then the await
app_on_message(message) ==
    /\ prog = "app"
    /\ session # 0
    /\ Len(arrived) < MaxMsgs
    /\ arrived' = Append(arrived, message)
    /\ heap' = Extend(heap, session, << Turn("user", message.content) >>)
    /\ h' = Append(h, [NewTask(session) EXCEPT !.pc = "completing"])
    /\ UNCHANGED << prog, url, session, data, result >>

\* app.py lines 78-94: the completion call ends; the reply is appended and stored
app_completion_done(i, o) ==
    /\ h[i].pc = "completing"
    /\ IF o.kind = "exc"
       THEN /\ h' = [h EXCEPT ![i] = [@ EXCEPT !.pc = "failed", !.reply = o, !.error = o.exc]]
            /\ UNCHANGED << heap, session >>
       ELSE /\ h' = [h EXCEPT ![i] = [@ EXCEPT !.pc = "replying", !.reply = o]]
            /\ heap' = Extend(heap, h[i].ref, << Turn("assistant", o.val) >>)
            /\ session' = h[i].ref
    /\ UNCHANGED << prog, url, arrived, data, result >>

\* app.py line 94: the reply message is out
app_reply_sent(i) ==
    /\ h[i].pc = "replying"
    /\ h' = [h EXCEPT ![i] = [@ EXCEPT !.pc = "done", !.msg = Str(h[i].reply.val)]]
    /\ UNCHANGED << prog, url, heap, session, arrived, data, result >>

Next ==
    \/ on_chat_start
    \/ \E thread \in SessionThreads : on_chat_resume(thread)
    \/ \E message \in Messages(Len(arrived) + 1) : tax_on_message(message)
    \/ \E i \in 1..Len(h) : tax_read_documents_done(i)
    \/ \E i \in 1..Len(h) : tax_placeholder_sent(i)
    \/ \E i \in 1..Len(h), o \in PostOutcomes : tax_post_done(i, o)
    \/ \E i \in 1..Len(h) : tax_reply_updated(i)
    \/ \E message \in Messages(Len(arrived) + 1) : app_on_message(message)
    \/ \E i \in 1..Len(h), o \in CompletionOutcomes : app_completion_done(i, o)
    \/ \E i \in 1..Len(h) : app_reply_sent(i)

Spec == Init /\ [][Next]_vars

(************************ on_chat_resume on its own *************************)
\* histories a session holds when a thread is resumed: none yet, a finished
\* exchange, and a history ending in a user turn (app.py while a completion is
\* awaited, either module after resuming a thread that ends so).  The session's
\* list is the last of the lists created so far; the resume creates the one left.
PriorHistories ==
    { << >>,
      << Turn("user", "m1"), Turn("assistant", "hello") >>,
      << Turn("user", "m1"), Turn("assistant", "hello"), Turn("user", "m2") >> }

InitResume ==
    /\ prog \in {"tax", "app"}
    /\ url = FALSE
    /\ \E p \in PriorHistories :
          heap = [l \in 1..(MaxLists - 1) |-> [by |-> "start", items |-> IF l = MaxLists - 1 THEN p ELSE << >>]]
    /\ session = MaxLists - 1
    /\ arrived = << >>
    /\ h = << >>
    /\ data = Null
    /\ result = NotRun

NextResume == \E thread \in Threads : on_chat_resume(thread)

SpecResume == InitResume /\ [][NextResume]_vars

(************* the request of on_message, for two histories ****************)
NoRequest == [kind |-> "norequest"]

\* variant of on_message_request: the history is sent along, as app.py does (lines 79-82)
on_message_request_with_history(chat_history, message) ==
    LET files == SelectSeq(message.elements, LAMBDA f : TRUE)
        r     == IF Len(files) > 0 THEN read_documents(files) ELSE Return("")
    IN  IF r.kind = "exc" THEN r
        ELSE IF ~url THEN NoRequest
        ELSE Return([chatInput |->
                        JoinStr("\n", [j \in 1..Len(chat_history) |-> chat_history[j].content])
                        \o enforced_message(message.content,
                                            IF Len(files) > 0 THEN Str(r.val) ELSE Null)])

\* tax.py lines 189-205 and 113-131: what on_message, run on a session whose history
\* is chat_history, sends to the webhook for message: a request body, no request
\* (URL not configured), or the exception of read_documents
on_message_request(chat_history, message) ==
    LET files == SelectSeq(message.elements, LAMBDA f : TRUE)
        r     == IF Len(files) > 0 THEN read_documents(files) ELSE Return("")
    IN  IF r.kind = "exc" THEN r
        ELSE IF ~url THEN NoRequest
        ELSE Return(request_body(message.content,
                                 IF Len(files) > 0 THEN Str(r.val) ELSE Null))

RequestInputs ==
    [first : PriorHistories, second : PriorHistories,
     message : [content : {"m1", "m2"}, elements : FileLists]]

InitRequest ==
    /\ data \in RequestInputs
    /\ result = NotRun
    /\ prog = "tax" /\ url \in BOOLEAN /\ heap = << >> /\ session = 0
    /\ arrived = << >> /\ h = << >>

Request ==
    /\ result = NotRun
    /\ result' = [kind |-> "pair",
                  first  |-> on_message_request(data.first, data.message),
                  second |-> on_message_request(data.second, data.message)]
    /\ UNCHANGED << prog, url, heap, session, arrived, h, data >>

NextRequest == Request

SpecRequest == InitRequest /\ [][NextRequest]_vars

(******************** read_documents as a run of its own ********************)
MaxDocs == 3

DocLists == UNION { [1..n -> Docs] : n \in 0..MaxDocs }

InitRead ==
    /\ data \in DocLists
    /\ result = NotRun
    /\ prog = "tax" /\ url = TRUE /\ heap = << >> /\ session = 0
    /\ arrived = << >> /\ h = << >>

Read ==
    /\ result = NotRun
    /\ result' = read_documents(data)
    /\ UNCHANGED << prog, url, heap, session, arrived, h, data >>

NextRead == Read

SpecRead == InitRead /\ [][NextRead]_vars

(******************** extract_text as a run of its own *********************)
InitExtract ==
    /\ data \in JsonInputs
    /\ result = NotRun
    /\ prog = "tax" /\ url = TRUE /\ heap = << >> /\ session = 0
    /\ arrived = << >> /\ h = << >>

Extract ==
    /\ result = NotRun
    /\ result' = extract_text(data)
    /\ UNCHANGED << prog, url, heap, session, arrived, h, data >>

NextExtract == Extract

SpecExtract == InitExtract /\ [][NextExtract]_vars

(******************************* the claims ********************************)
StartsWith(s, pre) == Len(s) >= Len(pre) /\ SubSeq(s, 1, Len(pre)) = pre

\* C1: whenever the POST of call_n8n_chain times out, call_n8n_chain returns the
\* fixed timeout message; the timeout never reaches the caller as an exception.
C1_TimeoutReturnsMessage ==
    \A i \in 1..Len(h) :
        h[i].outcome.k = "timeout" => h[i].reply = Return(TIMED_OUT)

\* C2: a message whose workflow call times out is still handled to the end, and the
\* history then holds its user turn followed by an assistant turn with the timeout text.
C2_TimeoutStillRecorded ==
    \A i \in 1..Len(h) :
        h[i].outcome.k = "timeout" =>
            /\ h[i].pc \in {"updating", "done"}
            /\ h[i].pc = "done" =>
                 \E j \in 1..(Len(heap[h[i].ref].items) - 1) :
                    /\ heap[h[i].ref].items[j] = Turn("user", arrived[i].content)
                    /\ heap[h[i].ref].items[j + 1] = Turn("assistant", TIMED_OUT)

\* C3: every exception other than a timeout raised by the POST, by the parsing of the
\* body or by extract_text is turned into the string 'Unexpected error: <message>';
\* call_n8n_chain never raises.
C3_OtherErrorsReturned ==
    \A i \in 1..Len(h) :
        (h[i].outcome.k \in {"connerr", "resp"} /\ try_body(h[i].outcome).kind = "exc") =>
            /\ h[i].reply.kind = "ret"
            /\ Contains(h[i].reply.val,
                        "Unexpected error: " \o ExcStr(try_body(h[i].outcome).exc))

\* C4: extract_text is total: it returns a string for every JSON value and never raises.
C4_ExtractTextTotal == result.kind # "exc"

Paired(items) ==
    /\ Len(items) % 2 = 0
    /\ \A j \in 1..Len(items) :
          items[j].role = IF j % 2 = 1 THEN "user" ELSE "assistant"

NoResume == \A l \in 1..Len(heap) : heap[l].by = "start"

\* C5: from on_chat_start on, after any on_message invocations (failing ones included),
\* the session history is a sequence of (user, assistant) pairs, in tax.py and in app.py.
C5_HistoryPaired == (session # 0 /\ NoResume) => Paired(History)

\* the contents of the user turns of a history, in order
UserContents(items) ==
    LET us == SelectSeq(items, LAMBDA t : t.role = "user")
    IN  [j \in 1..Len(us) |-> us[j].content]

ArrivalIndex(c) == CHOOSE k \in 1..Len(arrived) : arrived[k].content = c

\* C6: the exchanges of a session appear in the history in the order in which their
\* messages arrived, also when a later message is taken up while an earlier one is
\* still suspended at the workflow call (the webhook being configured).
C6_ArrivalOrder ==
    (session # 0 /\ NoResume /\ url) =>
        LET us == UserContents(History) IN
        \A a, b \in 1..Len(us) : a < b => ArrivalIndex(us[a]) < ArrivalIndex(us[b])

\* the turn a persisted step stands for
StepTurn(step) ==
    Turn(IF step["type"] = "user_message" THEN "user" ELSE "assistant",
         IF "output" \in DOMAIN step THEN step["output"] ELSE "")

IsChatStep(step) ==
    "type" \in DOMAIN step /\ step["type"] \in {"user_message", "assistant_message"}

ExpectedHistory(thread) ==
    LET steps == IF "steps" \in DOMAIN thread THEN thread["steps"] ELSE << >>
        kept  == SelectSeq(steps, IsChatStep)
    IN  [j \in 1..Len(kept) |-> StepTurn(kept[j])]

\* C7: on_chat_resume sets the session history to exactly the user_message and
\* assistant_message steps of the thread, in order, as user and assistant turns with
\* the step's output ("" without one); every other step is dropped and the history
\* held before is discarded.
C7_ResumeRebuilds ==
    [][ \A thread \in Threads : on_chat_resume(thread) => History' = ExpectedHistory(thread) ]_vars

C7_Witness ==
    /\ session >= 2
    /\ heap[session].by = "resume"
    /\ Len(heap[session - 1].items) = 3
    /\ heap[session].items = << Turn("user", "hi"), Turn("assistant", "") >>

AnswerFields == << "answer", "response", "output", "cleanedResponse" >>

Qualifying(d) ==
    { n \in 1..Len(AnswerFields) : AnswerFields[n] \in DOMAIN d /\ Truthy(d[AnswerFields[n]]) }

\* the first answer field, in priority order, that is present and non-empty
FirstQualifying(d) ==
    IF Qualifying(d) = {} THEN Str("")
    ELSE d[AnswerFields[CHOOSE n \in Qualifying(d) : \A m \in Qualifying(d) : n <= m]]

AnswerText(d) ==
    IF Truthy(FirstQualifying(d)) THEN PyStr(FirstQualifying(d)) ELSE "Response rejected."

NoCitations(d) == "citations" \notin DOMAIN d \/ ~Truthy(d["citations"])

\* C8 as stated: for every mapping without citations, the empty mapping included, the
\* result is the answer text or 'Response rejected.' (surrounding blank space aside)
\* and holds no Sources block.
C8_NoCitationsAnswerOnly ==
    (result # NotRun /\ data.t = "obj" /\ NoCitations(data.o)) =>
        /\ result.kind = "ret"
        /\ Strip(result.val) = Strip(AnswerText(data.o))
        /\ ~Contains(result.val, "Sources")

\* C8 amended: for every non-empty mapping without citations the result is the answer
\* text, or 'Response rejected.', followed by a blank line and nothing else; the empty
\* mapping yields the no-response message with 'Sources: None'.
C8_NoCitationsAmended ==
    (result # NotRun /\ data.t = "obj" /\ NoCitations(data.o)) =>
        IF DOMAIN data.o = {}
        THEN result = Return(NO_RESPONSE)
        ELSE /\ result = Return(AnswerText(data.o) \o "\n\n")
             /\ ~Contains(result.val, "Sources")

C8_Witness ==
    /\ data.t = "obj"
    /\ DOMAIN data.o = {"answer", "citations"}
    /\ data.o["answer"] = Str("")
    /\ data.o["citations"] = List(<< >>)
    /\ result = Return("Response rejected.\n\n")

C9_Input == Obj([answer |-> Str("A"), citations |-> List(<< CitationC0 >>)])

\* C9 as stated: the mapping {answer: "A", citations: [{source: "S", reference: "R"}]}
\* renders as "A\n\nSources:\n- S (R)", nothing standing before 'Sources:' on its line.
C9_RoundTrip ==
    (result # NotRun /\ data = C9_Input) => result = Return("A\n\nSources:\n- S (R)")

\* C9 amended: that mapping renders as "A\n\n Sources:\n- S (R)": the answer, a blank
\* line, the line ' Sources:' with one space before the word, then one line per citation.
C9_RoundTripAmended ==
    (result # NotRun /\ data = C9_Input) => result = Return("A\n\n Sources:\n- S (R)")

C9_Witness == data = C9_Input /\ result.kind = "ret"

\* C10: the answer is taken from the first of answer, response, output, cleanedResponse
\* that is present with a non-empty value; present but empty fields are passed over;
\* it is the empty string when none qualifies.  The text returned starts with it.
C10_AnswerPriority ==
    (result # NotRun /\ data.t = "obj") =>
        /\ extract_answer(data.o) = FirstQualifying(data.o)
        /\ (result.kind = "ret" /\ Truthy(FirstQualifying(data.o))) =>
              StartsWith(LStrip(result.val), Strip(PyStr(FirstQualifying(data.o))))

C10_Witness ==
    /\ data.t = "obj"
    /\ DOMAIN data.o = {"answer", "response", "cleanedResponse"}
    /\ data.o["answer"] = Str("")
    /\ data.o["response"] = Null
    /\ data.o["cleanedResponse"] = Str("D")
    /\ result = Return("D\n\n")

\* C11: without a configured webhook URL call_n8n_chain returns the fixed
\* configuration-error string and no HTTP request is issued, whatever the message and
\* the document context.
C11_NoUrlNoRequest ==
    (prog = "tax" /\ ~url) =>
        \A i \in 1..Len(h) :
            /\ h[i].posts = 0
            /\ h[i].pc \in {"updating", "done"} => h[i].reply = Return(" N8N_WEBHOOK_URL not configured.")

C11_Witness ==
    /\ prog = "tax"
    /\ ~url
    /\ \E i \in 1..Len(h) :
          /\ h[i].document_context # Null
          /\ h[i].pc = "done"
          /\ h[i].reply = Return(NOT_CONFIGURED)
          /\ h[i].posts = 0

\* C12: a response with a status other than 200 yields a message stating that status,
\* the body is not rendered, and no call issues more than one POST, whatever happens.
C12_StatusNoRetry ==
    \A i \in 1..Len(h) :
        /\ h[i].posts <= 1
        /\ (h[i].outcome.k = "resp" /\ h[i].outcome.status # 200) =>
              /\ h[i].reply.kind = "ret"
              /\ Contains(h[i].reply.val, "status " \o ToString(h[i].outcome.status))
              /\ ~Contains(h[i].reply.val, "Sources")

C12_Witness ==
    \E i \in 1..Len(h) :
        /\ h[i].outcome.k = "resp"
        /\ h[i].outcome.status = 500
        /\ h[i].outcome.body.valid
        /\ h[i].posts = 1
        /\ h[i].pc = "done"
        /\ h[i].reply = Return(" n8n returned status 500")

\* the places of a text where a header 'FILE: ' starts
HeaderStarts(text) == { p \in 1..(Len(text) - 5) : SubSeq(text, p, p + 5) = "FILE: " }

\* the k-th of them
HeaderStart(text, k) ==
    CHOOSE p \in HeaderStarts(text) : Cardinality({ q \in HeaderStarts(text) : q < p }) = k - 1

\* the text from the k-th header up to the blank line before the next one
Section(text, k) ==
    SubSeq(text, HeaderStart(text, k),
           IF k < Cardinality(HeaderStarts(text)) THEN HeaderStart(text, k + 1) - 3 ELSE Len(text))

RECURSIVE Extension(_)
\* what follows the last dot of a path
Extension(path) ==
    IF ~Contains(path, ".") THEN ""
    ELSE IF Contains(Tail(path), ".") THEN Extension(Tail(path))
    ELSE Tail(path)

RECURSIVE Concat(_)
Concat(parts) == IF Len(parts) = 0 THEN "" ELSE Head(parts) \o Concat(Tail(parts))

\* the text extracted from a readable document: pages in page order, paragraphs
\* joined by newlines, the raw text; nothing for any other extension
ExtractedContent(doc) ==
    CASE Extension(doc.path) = "pdf"  -> Concat(doc.parts)
      [] Extension(doc.path) = "docx" -> JoinStr("\n", doc.parts)
      [] Extension(doc.path) = "txt"  -> Concat(doc.parts)
      [] OTHER -> ""

\* C13: the text read_documents returns holds one header line 'FILE: <name>' per
\* document, in input order, each followed by that document's extracted content; a
\* document with an unsupported extension adds its header alone and raises nothing.
C13_HeadersInOrder ==
    result # NotRun =>
        /\ (\A k \in 1..Len(data) : data[k].readable) => result.kind = "ret"
        /\ result.kind = "ret" =>
              /\ Cardinality(HeaderStarts(result.val)) = Len(data)
              /\ \A k \in 1..Len(data) :
                    /\ SubSeq(result.val, HeaderStart(result.val, k) - 2,
                              HeaderStart(result.val, k) - 1) = "\n\n"
                    /\ Section(result.val, k) =
                          "FILE: " \o data[k].name \o "\n" \o ExtractedContent(data[k])

C13_Witness ==
    /\ Len(data) = 3
    /\ data[1].name = "scan.png"
    /\ data[2].name = "memo.docx"
    /\ data[3].name = "slip.pdf"
    /\ result = Return("\n\nFILE: scan.png\n\n\nFILE: memo.docx\nq1\nq2\n\nFILE: slip.pdf\np1p2")

IsPrefix(s, t) == Len(s) <= Len(t) /\ SubSeq(t, 1, Len(s)) = s

\* the steps of one run of on_message, in the order claimed
ClaimedSteps(message) ==
    (IF Len(message.elements) > 0 THEN << "extract" >> ELSE << >>)
    \o << "placeholder", "call", "update", "append" >>

\* the history (any list of the session) holds the user turn of message i
Recorded(i) ==
    \E l \in 1..Len(heap) : \E j \in 1..Len(heap[l].items) :
        heap[l].items[j] = Turn("user", arrived[i].content)

\* C14: every run of on_message (tax.py) takes its steps in the order extraction (with
\* attachments only), placeholder, workflow call, update of the placeholder, append;
\* the history is not touched before the placeholder shows the final text.
C14_StepOrder ==
    prog = "tax" =>
        \A i \in 1..Len(h) :
            /\ IsPrefix(h[i].steps, ClaimedSteps(arrived[i]))
            /\ h[i].pc = "done" => h[i].steps = ClaimedSteps(arrived[i])
            /\ Recorded(i) =>
                  /\ h[i].reply.kind = "ret"
                  /\ h[i].msg = Str(Strip(h[i].reply.val))
                  /\ h[i].steps = ClaimedSteps(arrived[i])

C14_Witness ==
    /\ prog = "tax"
    /\ url
    /\ \E i \in 1..Len(h) :
          /\ h[i].steps = << "extract", "placeholder", "call", "update", "append" >>
          /\ h[i].outcome.k = "resp"
          /\ Recorded(i)

\* the parenthesised text claimed for a citation: its reference when present and
\* non-empty, otherwise its section, otherwise nothing
ParenText(c) ==
    IF "reference" \in DOMAIN c /\ Truthy(c["reference"]) THEN PyStr(c["reference"])
    ELSE IF "section" \in DOMAIN c /\ Truthy(c["section"]) THEN PyStr(c["section"])
    ELSE ""

ClaimedLine(c) == "- " \o PyStr(Get(c, "source", Null)) \o " (" \o ParenText(c) \o ")"

\* the mapping has a non-empty list of citations, all of them mappings
HasCitations(d) ==
    /\ "citations" \in DOMAIN d
    /\ d["citations"].t = "list"
    /\ Len(d["citations"].l) > 0
    /\ \A k \in 1..Len(d["citations"].l) : d["citations"].l[k].t = "obj"

\* C15: every citation is rendered '- <source> (<text>)' where the text is the
\* reference when present and non-empty, otherwise the section, otherwise empty; a
\* reference that is present but empty or null gives way to a non-empty section.
C15_ReferenceElseSection ==
    (result.kind = "ret" /\ data.t = "obj" /\ HasCitations(data.o)) =>
        LET cs == data.o["citations"].l IN
        EndsWith(result.val,
                 " Sources:\n" \o JoinStr("\n", [k \in 1..Len(cs) |-> ClaimedLine(cs[k].o)]))

\* message i carries a document that cannot be extracted
HasCorruptDocument(i) ==
    \E k \in 1..Len(arrived[i].elements) : read_document(arrived[i].elements[k]).kind = "exc"

\* C16: when the extraction of an attached document fails, the exchange goes on: the
\* failure does not leave on_message, which still replies and appends the exchange.
C16_ExtractionFailureIsolated ==
    prog = "tax" =>
        \A i \in 1..Len(h) :
            (HasCorruptDocument(i) /\ h[i].pc # "reading") =>
                /\ h[i].pc # "failed"
                /\ h[i].document_context # Null

\* C17: the request tax.py sends to the webhook depends on the message content and the
\* attachments only: two sessions with different histories that receive the same
\* message with the same attachments send the same request body (or both send none).
C17_RequestIgnoresHistory ==
    result.kind = "pair" => result.first = result.second

C17_Witness ==
    /\ result.kind = "pair"
    /\ data.first = << >>
    /\ Len(data.second) = 3
    /\ Len(data.message.elements) = 1
    /\ result.first.kind = "ret"
    /\ Contains(result.first.val.chatInput, "DOCUMENT CONTEXT (FOR CITATION ONLY):\n\n\nFILE: slip.pdf\np1p2\n\n")
    /\ EndsWith(result.first.val.chatInput, "User question:\nm2\n")

\* the turns appended by the exchange of message i: a user turn with the message's
\* content directly followed by an assistant turn with the given content
ExchangeRecorded(i, content) ==
    \E j \in 2..Len(heap[h[i].ref].items) :
        /\ heap[h[i].ref].items[j - 1] = Turn("user", arrived[i].content)
        /\ heap[h[i].ref].items[j] = Turn("assistant", content)

\* C18: for every exchange tax.py's on_message has finished, the assistant turn
\* appended to the session history has the final text shown in the reply message.
C18_AssistantTurnIsShownText ==
    \A i \in 1..Len(h) :
        (prog = "tax" /\ h[i].pc = "done") => ExchangeRecorded(i, h[i].msg.s)

\* the thread the storage collaborator holds for the current session under C19's
\* assumption: the greeting, then the user message and, once sent, the reply message
\* with the text it shows now
PersistedThread ==
    [id |-> "t",
     steps |-> << [type |-> "assistant_message", output |-> greeting("admin")] >>
               \o (IF Len(h) = 1 /\ h[1].ref = session
                   THEN << [type |-> "user_message", output |-> arrived[1].content] >>
                        \o (IF h[1].msg # Null
                            THEN << [type |-> "assistant_message", output |-> h[1].msg.s] >>
                            ELSE << >>)
                   ELSE << >>)]

\* C19: in tax.py, for a session begun by on_chat_start that has received at most one
\* message, the history on_chat_resume rebuilds from the persisted thread equals the
\* history the session holds.
C19_ResumeRoundTrip ==
    (prog = "tax" /\ session # 0 /\ heap[session].by = "start" /\ Len(arrived) <= 1)
        => tax_resume_history(PersistedThread) = History

====
